---- MODULE Spec2Model ----
(***************************************************************************)
(* Model of the package inventory code of androidqf                        *)
(* (src/modules/services.go, package adb: getPackageFiles, GetPackages).   *)
(*                                                                         *)
(* A Go string is a sequence of one-character strings, so that TrimSpace,  *)
(* TrimPrefix, Split, Fields, SplitN and Atoi are computed, not assumed.   *)
(* The device (a.Shell) is the environment: every call answers with one    *)
(* (out, err) pair of a bounded set, and the call and its answer are       *)
(* appended to the history variable shellLog.  An index past the end of a  *)
(* slice is Go's run-time panic: the run stops at pc = "panic" and         *)
(* GetPackages returns nothing.                                            *)
(***************************************************************************)
EXTENDS Integers, Sequences, FiniteSets, TLC

\* ---------------------------------------------------------------- bounds
\* Most lines in one `pm list packages` answer.
MaxListLines == 2
\* Most lines in one `pm path` answer.
MaxPathLines == 2
\* Most lines in one filtered (-d/-s/-3) answer.
MaxFilterLines == 2

\* ------------------------------------------------------- Go string library
\* unicode.IsSpace restricted to the characters the model uses
IsSpace(c) == c \in {" ", "\t", "\n", "\r"}

\* the indices of the non-space characters of s
NonSpaceAt(s) == {k \in 1..Len(s) : ~IsSpace(s[k])}

Min(S) == CHOOSE k \in S : \A m \in S : k <= m
Max(S) == CHOOSE k \in S : \A m \in S : k >= m

\* strings.TrimSpace: from the first to the last non-space character
TrimSpace(s) ==
    IF NonSpaceAt(s) = {} THEN <<>>
    ELSE SubSeq(s, Min(NonSpaceAt(s)), Max(NonSpaceAt(s)))

\* strings.HasPrefix
HasPrefix(s, p) == Len(s) >= Len(p) /\ SubSeq(s, 1, Len(p)) = p

\* strings.TrimPrefix: s without the leading p, s itself when p is no prefix
TrimPrefix(s, p) == IF HasPrefix(s, p) THEN SubSeq(s, Len(p) + 1, Len(s)) ELSE s

\* strings.Split(s, sep) for a one-character sep: the texts between
\* consecutive separators, one more than there are separators
Split(s, sep) ==
    LET at == {k \in 1..Len(s) : s[k] = sep}
        \* the m-th separator; 0 and Len(s)+1 close the ends
        pos(m) == IF m = 0 THEN 0
                  ELSE IF m > Cardinality(at) THEN Len(s) + 1
                  ELSE CHOOSE k \in at : Cardinality({q \in at : q <= k}) = m
    IN [m \in 1..(Cardinality(at) + 1) |-> SubSeq(s, pos(m - 1) + 1, pos(m) - 1)]

\* strings.Fields: the maximal runs of non-space characters, in order
Fields(s) ==
    LET starts == {k \in NonSpaceAt(s) : k = 1 \/ IsSpace(s[k - 1])}
        start(m) == CHOOSE k \in starts : Cardinality({q \in starts : q <= k}) = m
        end(b) == Min({k \in b..Len(s) : k = Len(s) \/ IsSpace(s[k + 1])})
    IN [m \in 1..Cardinality(starts) |-> SubSeq(s, start(m), end(start(m)))]

\* strings.SplitN(s, " ", 2)[0]: s up to its first " ", all of s without one
SplitN2First(s) ==
    LET at == {k \in 1..Len(s) : s[k] = " "}
    IN IF at = {} THEN s ELSE SubSeq(s, 1, Min(at) - 1)

Digits == {"0", "1", "2", "3", "4", "5", "6", "7", "8", "9"}

DigitVal(c) ==
    CASE c = "0" -> 0 [] c = "1" -> 1 [] c = "2" -> 2 [] c = "3" -> 3
      [] c = "4" -> 4 [] c = "5" -> 5 [] c = "6" -> 6 [] c = "7" -> 7
      [] c = "8" -> 8 [] c = "9" -> 9

RECURSIVE DecVal(_, _)
DecVal(s, acc) ==
    IF s = <<>> THEN acc ELSE DecVal(Tail(s), acc * 10 + DigitVal(Head(s)))

AllDigits(s) == s /= <<>> /\ \A k \in 1..Len(s) : s[k] \in Digits

\* strconv.Atoi with its error dropped (`uid, _ = strconv.Atoi(..)`): the value
\* of an optionally signed decimal, 0 on a syntax error.  The strings of the
\* model are far shorter than the 19 digits at which Atoi saturates.
Atoi(s) ==
    IF s /= <<>> /\ Head(s) \in {"+", "-"}
    THEN (IF AllDigits(Tail(s))
          THEN (IF Head(s) = "-" THEN 0 - DecVal(Tail(s), 0) ELSE DecVal(Tail(s), 0))
          ELSE 0)
    ELSE IF AllDigits(s) THEN DecVal(s, 0) ELSE 0

\* ------------------------------------------------------- string literals
PkgPrefix == <<"p", "a", "c", "k", "a", "g", "e", ":">>
InstallerPrefix == <<"i", "n", "s", "t", "a", "l", "l", "e", "r", "=">>
UidPrefix == <<"u", "i", "d", ":">>

\* the commands GetPackages and getPackageFiles hand to a.Shell
CmdListAnnotated == "pm list packages -U -u -i"
CmdListReduced == "pm list packages -U -u"
CmdPath == "pm path"
DigestCmds == <<"md5sum", "sha1sum", "sha256sum", "sha512sum">>
DigestFields == <<"MD5", "SHA1", "SHA256", "SHA512">>

\* cmds of GetPackages: the flag each filtered query sets
cmds ==
    << [field |-> "Disabled", arg |-> "-d"],
       [field |-> "System", arg |-> "-s"],
       [field |-> "ThirdParty", arg |-> "-3"] >>

CmdFilter(k) ==
    CASE k = 1 -> "pm list packages -d"
      [] k = 2 -> "pm list packages -s"
      [] k = 3 -> "pm list packages -3"

\* ------------------------------------------------- the device's answers
\* An answer of a.Shell: the text and whether err /= nil.
Ans(o, e) == [out |-> o, err |-> e]

NL == <<"\n">>

RECURSIVE Join(_)
Join(ls) ==
    IF ls = <<>> THEN <<>>
    ELSE IF Len(ls) = 1 THEN ls[1]
    ELSE ls[1] \o NL \o Join(Tail(ls))

\* all sequences over S of length 0..n
SeqsUpTo(S, n) == UNION {[1..m -> S] : m \in 0..n}

\* The device classes the model is run against.  Each widens one kind of
\* answer and keeps the others narrow, so that the runs stay enumerable.
Profiles == {"listing", "files", "digests", "flags"}

\* lines of a listing answer
LineA == PkgPrefix \o <<"a", " ">> \o InstallerPrefix \o <<"v", " ">> \o UidPrefix \o <<"1", "2">>
LineB == PkgPrefix \o <<"b", " ">> \o InstallerPrefix \o <<"w", " ">> \o UidPrefix \o <<"x">>
LineC == PkgPrefix \o <<"c", " ">> \o InstallerPrefix \o <<"v", " ">> \o UidPrefix \o <<"7">>
LineNoName == PkgPrefix \o <<" ">> \o InstallerPrefix \o <<"v", " ">> \o UidPrefix \o <<"5">>
LineSpaced == <<" ">> \o PkgPrefix \o <<"a", "\t">> \o InstallerPrefix \o <<"w", " ", " ">> \o UidPrefix \o <<"3", "\r">>
LineRedA == PkgPrefix \o <<"a", " ">> \o UidPrefix \o <<"4">>
LineRedB == PkgPrefix \o <<"b", " ", " ">> \o UidPrefix \o <<"6", "\r">>
LineBlank == <<>>
LineWhite == <<" ", "\r">>

ListLines == {LineA, LineB, LineNoName, LineSpaced, LineRedA, LineRedB, LineBlank, LineWhite}

ListTexts(prof) ==
    CASE prof = "listing" -> {Join(ls) : ls \in SeqsUpTo(ListLines, MaxListLines)}
      [] prof = "files" -> {Join(<<LineA, LineB>>)}
      [] prof = "digests" -> {LineA}
      [] prof = "flags" -> {Join(<<LineA, LineB, LineC, LineB>>)}

\* answers to either listing query: a failure (but for the device classes
\* that are about later commands), or a text
ListAnswers(prof) ==
    (IF prof \in {"listing", "files"} THEN {Ans(<<>>, TRUE)} ELSE {})
        \cup {Ans(t, FALSE) : t \in ListTexts(prof)}

\* lines of a `pm path` answer
PathX == PkgPrefix \o <<"/", "x">>
PathY == <<" ">> \o PkgPrefix \o <<"/", "y", "\r">>
PathLines == {PathX, PathY, LineWhite}

PathFail == Ans(<<"e", "r", "r">>, TRUE)

PathAnswers(prof) ==
    CASE prof = "listing" -> {PathFail, Ans(PathX, FALSE)}
      [] prof = "files" ->
            {PathFail} \cup {Ans(Join(ls), FALSE) : ls \in SeqsUpTo(PathLines, MaxPathLines)}
      [] prof = "digests" -> {Ans(PathX, FALSE), Ans(Join(<<PathX, PathY>>), FALSE)}
      [] prof = "flags" -> {PathFail}

\* the digest a utility prints for a path: a letter for the utility, then the
\* path's last character
DigestHex(t, path) ==
    << CASE t = 1 -> "m" [] t = 2 -> "s" [] t = 3 -> "t" [] t = 4 -> "u",
       path[Len(path)] >>

DigestAnswers(prof, t, path) ==
    CASE prof = "digests" ->
            { Ans(<<"d", "e", "n", "i", "e", "d">>, TRUE),
              Ans(DigestHex(t, path) \o <<" ", " ">> \o path, FALSE),
              Ans(DigestHex(t, path), FALSE) }
      [] OTHER -> {Ans(DigestHex(t, path) \o <<" ", " ">> \o path \o NL, FALSE)}

\* lines of a filtered listing answer
FilterLines == {PkgPrefix \o <<"b", "\r">>, <<" ">> \o PkgPrefix \o <<"d">>, LineBlank}

FilterAnswers(prof) ==
    CASE prof = "flags" ->
            {Ans(<<>>, TRUE), Ans(PkgPrefix \o <<"c">>, TRUE)}
                \cup {Ans(Join(ls), FALSE) : ls \in SeqsUpTo(FilterLines, MaxFilterLines)}
      [] OTHER -> {Ans(PkgPrefix \o <<"a">> \o NL, FALSE)}

FastModes(prof) ==
    CASE prof = "digests" -> {FALSE}
      [] prof = "flags" -> {TRUE}
      [] OTHER -> BOOLEAN

\* ------------------------------------------------------------------ state
VARIABLES
    profile,        \* the device class of this run (environment)
    fast,           \* GetPackages' argument
    pc,             \* position in GetPackages / getPackageFiles
    withInstaller,  \* GetPackages: withInstaller
    out,            \* GetPackages: out (the listing, later each filtered answer)
    i,              \* GetPackages: index of the listing line being parsed
    packageName,    \* GetPackages: packageName of the current line
    installer,      \* GetPackages: installer
    uid,            \* GetPackages: uid
    packages,       \* GetPackages: packages
    pathOut,        \* getPackageFiles: out
    j,              \* getPackageFiles: index of the path line being read
    packageFiles,   \* getPackageFiles: packageFiles
    packageFile,    \* getPackageFiles: packageFile
    cmdIdx,         \* GetPackages: index into cmds
    retPackages,    \* GetPackages' first result
    retErr,         \* GetPackages' second result is not nil
    shellLog        \* history: every a.Shell call with its answer

vars ==
    << profile, fast, pc, withInstaller, out, i, packageName, installer, uid,
       packages, pathOut, j, packageFiles, packageFile, cmdIdx, retPackages,
       retErr, shellLog >>

fileVars == <<pathOut, j, packageFiles, packageFile>>
retVars == <<retPackages, retErr>>

\* PackageFile{}: the zero value (the fields getPackageFiles never writes,
\* LocalName, Error and the certificate fields, are left out)
NoFile == [Path |-> <<>>, MD5 |-> <<>>, SHA1 |-> <<>>, SHA256 |-> <<>>, SHA512 |-> <<>>]

Init ==
    /\ profile \in Profiles
    /\ fast \in FastModes(profile)
    /\ pc = "start"
    /\ withInstaller = TRUE
    /\ out = <<>>
    /\ i = 1
    /\ packageName = <<>>
    /\ installer = <<>>
    /\ uid = 0
    /\ packages = <<>>
    /\ pathOut = <<>>
    /\ j = 1
    /\ packageFiles = <<>>
    /\ packageFile = NoFile
    /\ cmdIdx = 1
    /\ retPackages = <<>>
    /\ retErr = FALSE
    /\ shellLog = <<>>

\* a.Shell(cmd, arg) answered by r; pk and fl say for which record and which
\* file of it the call was made (0: for none)
Shell(cmd, arg, r, pk, fl) ==
    shellLog' = Append(shellLog,
        [cmd |-> cmd, arg |-> arg, out |-> r.out, err |-> r.err, pkg |-> pk, file |-> fl])

\* ------------------------------------------------------------ GetPackages
\* line 133: the annotated listing query
ListAnnotated ==
    /\ pc = "start"
    /\ \E r \in ListAnswers(profile) :
          /\ Shell(CmdListAnnotated, <<>>, r, 0, 0)
          /\ IF r.err
             THEN pc' = "fallback" /\ UNCHANGED <<withInstaller, out>>
             ELSE pc' = "parse" /\ withInstaller' = TRUE /\ out' = r.out
    /\ i' = 1
    /\ UNCHANGED <<profile, fast, packageName, installer, uid, packages, cmdIdx>>
    /\ UNCHANGED <<fileVars, retVars>>

\* FatalReturn with the error lost
FatalReturnNil ==
    /\ pc' = "done"
    /\ retPackages' = <<>>
    /\ retErr' = FALSE

\* lines 138-139: return []Package{}, fmt.Errorf(..)
FatalReturn ==
    /\ pc' = "done"
    /\ retPackages' = <<>>
    /\ retErr' = TRUE

\* lines 136-141: the reduced listing query, and the fatal error
ListReduced ==
    /\ pc = "fallback"
    /\ \E r \in ListAnswers(profile) :
          /\ Shell(CmdListReduced, <<>>, r, 0, 0)
          /\ IF r.err
             THEN /\ FatalReturn
                  /\ UNCHANGED <<withInstaller, out>>
             ELSE /\ pc' = "parse"
                  /\ withInstaller' = FALSE
                  /\ out' = r.out
                  /\ UNCHANGED retVars
    /\ i' = 1
    /\ UNCHANGED <<profile, fast, packageName, installer, uid, packages, cmdIdx>>
    /\ UNCHANGED fileVars

\* the listing loop moves to its next line, or ends and the cmds loop starts
NextLine ==
    IF i < Len(Split(out, NL[1]))
    THEN pc' = "parse" /\ i' = i + 1
    ELSE pc' = "filter" /\ i' = i

\* fields[k] of Go, 0-based
Field(fields, k) == fields[k + 1]

\* the highest index of fields that lines 149-154 read
LastFieldRead(wi) == IF wi THEN 2 ELSE 1

\* lines 147-160: one line of the listing is split and read.  An index past
\* the end of fields is a run-time panic: GetPackages never returns.
ParseLine ==
    /\ pc = "parse"
    /\ LET line == Split(out, NL[1])[i]
           fields == Fields(line)
       IN IF Len(fields) <= LastFieldRead(withInstaller)
          THEN /\ pc' = "panic"
               /\ UNCHANGED <<i, packageName, installer, uid>>
          ELSE /\ packageName' = TrimPrefix(TrimSpace(Field(fields, 0)), PkgPrefix)
               /\ IF withInstaller
                  THEN /\ installer' = TrimPrefix(TrimSpace(Field(fields, 1)), InstallerPrefix)
                       /\ uid' = Atoi(TrimPrefix(TrimSpace(Field(fields, 2)), UidPrefix))
                  ELSE /\ uid' = Atoi(TrimPrefix(TrimSpace(Field(fields, 1)), UidPrefix))
                       /\ installer' = <<>>
               /\ IF packageName' = <<>>
                  THEN NextLine
                  ELSE pc' = "path" /\ i' = i
    /\ UNCHANGED <<profile, fast, withInstaller, out, packages, cmdIdx, shellLog>>
    /\ UNCHANGED <<fileVars, retVars>>

\* AppendPackage naming the record after its installer
AppendPackageInstallerName(files) ==
    /\ packages' = Append(packages,
            [ Name |-> installer, Installer |-> installer, UID |-> uid,
              Disabled |-> FALSE, System |-> FALSE, ThirdParty |-> FALSE,
              Files |-> files ])
    /\ NextLine

\* AppendPackage putting the record in front
AppendPackageFront(files) ==
    /\ packages' = <<[ Name |-> packageName, Installer |-> installer, UID |-> uid,
                       Disabled |-> FALSE, System |-> FALSE, ThirdParty |-> FALSE,
                       Files |-> files ]>> \o packages
    /\ NextLine

\* lines 162-172: getPackageFiles has returned files; the record is appended
AppendPackage(files) ==
    /\ packages' = Append(packages,
            [ Name |-> packageName, Installer |-> installer, UID |-> uid,
              Disabled |-> FALSE, System |-> FALSE, ThirdParty |-> FALSE,
              Files |-> files ])
    /\ NextLine

\* -------------------------------------------------------- getPackageFiles
\* lines 86-92: the path query; its failure returns []PackageFile{}
PmPath ==
    /\ pc = "path"
    /\ \E r \in PathAnswers(profile) :
          /\ Shell(CmdPath, packageName, r, Len(packages) + 1, 0)
          /\ IF r.err
             THEN /\ AppendPackage(<<>>)
                  /\ UNCHANGED <<pathOut, j, packageFiles>>
             ELSE /\ pathOut' = r.out
                  /\ j' = 1
                  /\ packageFiles' = <<>>
                  /\ pc' = "file"
                  /\ UNCHANGED <<i, packages>>
    /\ UNCHANGED <<profile, fast, withInstaller, out, packageName, installer, uid>>
    /\ UNCHANGED <<packageFile, cmdIdx, retVars>>

\* line 124 and the loop of line 93: f is appended, then the next path line is
\* read or getPackageFiles returns
AppendFile(f) ==
    IF j < Len(Split(pathOut, NL[1]))
    THEN /\ packageFiles' = Append(packageFiles, f)
         /\ j' = j + 1
         /\ pc' = "file"
         /\ UNCHANGED <<i, packages>>
    ELSE /\ packageFiles' = Append(packageFiles, f)
         /\ j' = j
         /\ AppendPackage(Append(packageFiles, f))

\* lines 95-97: `continue` on an empty path
SkipPathLine ==
    IF j < Len(Split(pathOut, NL[1]))
    THEN /\ j' = j + 1
         /\ pc' = "file"
         /\ UNCHANGED <<i, packages, packageFiles>>
    ELSE /\ UNCHANGED <<j, packageFiles>>
         /\ AppendPackage(packageFiles)

\* lines 93-103: one line of the path answer
PathLine ==
    /\ pc = "file"
    /\ LET packagePath == TrimPrefix(TrimSpace(Split(pathOut, NL[1])[j]), PkgPrefix)
       IN IF packagePath = <<>>
          THEN SkipPathLine /\ UNCHANGED packageFile
          ELSE /\ packageFile' = [NoFile EXCEPT !.Path = packagePath]
               /\ IF fast
                  THEN AppendFile(packageFile')
                  ELSE /\ pc' = "md5sum"
                       /\ UNCHANGED <<i, j, packages, packageFiles>>
    /\ UNCHANGED <<profile, fast, withInstaller, out, packageName, installer, uid>>
    /\ UNCHANGED <<pathOut, cmdIdx, retVars, shellLog>>

\* DigestValue keeping the whole answer
DigestValueWhole(old, r) == IF r.err THEN old ELSE r.out

\* the value a digest command's answer leaves in its field (lines 107-108 and
\* the three like them)
DigestValue(old, r) == IF r.err THEN old ELSE SplitN2First(r.out)

\* lines 106-121: the t-th digest command
Digest(t, next) ==
    /\ pc = DigestCmds[t]
    /\ \E r \in DigestAnswers(profile, t, packageFile.Path) :
          /\ Shell(DigestCmds[t], packageFile.Path, r, Len(packages) + 1,
                   Len(packageFiles) + 1)
          /\ LET f == [packageFile EXCEPT ![DigestFields[t]] = DigestValue(@, r)]
             IN /\ packageFile' = f
                /\ IF next = "append"
                   THEN AppendFile(f)
                   ELSE /\ pc' = next
                        /\ UNCHANGED <<i, j, packages, packageFiles>>
    /\ UNCHANGED <<profile, fast, withInstaller, out, packageName, installer, uid>>
    /\ UNCHANGED <<pathOut, cmdIdx, retVars>>

Md5sum == Digest(1, "sha1sum")
Sha1sum == Digest(2, "sha256sum")
Sha256sum == Digest(3, "sha512sum")
Sha512sum == Digest(4, "append")

\* ------------------------------------------- GetPackages: the cmds loop
\* SetFlag adding a record for a name that no record has
SetFlagOrAdd(pkgs, name, field) ==
    IF \E k \in 1..Len(pkgs) : pkgs[k].Name = name
    THEN [k \in 1..Len(pkgs) |->
            IF pkgs[k].Name /= name THEN pkgs[k] ELSE [pkgs[k] EXCEPT ![field] = TRUE]]
    ELSE Append(pkgs,
            [[ Name |-> name, Installer |-> <<>>, UID |-> 0,
               Disabled |-> FALSE, System |-> FALSE, ThirdParty |-> FALSE,
               Files |-> <<>> ] EXCEPT ![field] = TRUE])

\* lines 194-206: every record named name gets its field set
SetFlag(pkgs, name, field) ==
    [k \in 1..Len(pkgs) |->
        IF pkgs[k].Name /= name THEN pkgs[k] ELSE [pkgs[k] EXCEPT ![field] = TRUE]]

\* MergeLines leaving the loop at an empty name (`break` for `continue`)
RECURSIVE MergeLinesBreak(_, _, _)
MergeLinesBreak(pkgs, lines, field) ==
    IF lines = <<>> THEN pkgs
    ELSE LET name == TrimPrefix(TrimSpace(Head(lines)), PkgPrefix)
         IN IF name = <<>>
            THEN pkgs
            ELSE MergeLinesBreak(SetFlag(pkgs, name, field), Tail(lines), field)

\* lines 188-207: the lines of one filtered answer, in order
RECURSIVE MergeLines(_, _, _)
MergeLines(pkgs, lines, field) ==
    IF lines = <<>> THEN pkgs
    ELSE LET name == TrimPrefix(TrimSpace(Head(lines)), PkgPrefix)
         IN IF name = <<>>
            THEN MergeLines(pkgs, Tail(lines), field)
            ELSE MergeLines(SetFlag(pkgs, name, field), Tail(lines), field)

\* line 182: the filtered query is skipped
Skipped(r) == r.err /\ r.out = <<>>

\* FilterStep leaving the cmds loop at a skipped query (`break` for `continue`)
FilterStepBreak(r) ==
    /\ out' = r.out
    /\ packages' =
          IF Skipped(r) THEN packages
          ELSE MergeLines(packages, Split(r.out, NL[1]), cmds[cmdIdx].field)
    /\ IF cmdIdx < Len(cmds) /\ ~Skipped(r)
       THEN /\ cmdIdx' = cmdIdx + 1
            /\ pc' = "filter"
            /\ UNCHANGED retVars
       ELSE /\ cmdIdx' = cmdIdx
            /\ pc' = "done"
            /\ retPackages' = packages'
            /\ retErr' = FALSE

\* lines 181-210: the answer r to the cmdIdx-th filtered query is skipped or
\* merged, then the loop goes on; after the last query, `return packages, nil`
FilterStep(r) ==
    /\ out' = r.out
    /\ packages' =
          IF Skipped(r) THEN packages
          ELSE MergeLines(packages, Split(r.out, NL[1]), cmds[cmdIdx].field)
    /\ IF cmdIdx < Len(cmds)
       THEN /\ cmdIdx' = cmdIdx + 1
            /\ pc' = "filter"
            /\ UNCHANGED retVars
       ELSE /\ cmdIdx' = cmdIdx
            /\ pc' = "done"
            /\ retPackages' = packages'
            /\ retErr' = FALSE

\* lines 180-181: one filtered query
FilterQuery ==
    /\ pc = "filter"
    /\ \E r \in FilterAnswers(profile) :
          /\ Shell(CmdFilter(cmdIdx), <<>>, r, 0, 0)
          /\ FilterStep(r)
    /\ UNCHANGED <<profile, fast, withInstaller, i, packageName, installer, uid>>
    /\ UNCHANGED fileVars

Next ==
    \/ ListAnnotated
    \/ ListReduced
    \/ ParseLine
    \/ PmPath
    \/ PathLine
    \/ Md5sum
    \/ Sha1sum
    \/ Sha256sum
    \/ Sha512sum
    \/ FilterQuery

Spec == Init /\ [][Next]_vars

\* ============================================================ properties
\* What each line of the device's answers means, written down line by line
\* (not computed with the string library above).

\* a listing line read in annotated mode
ListMeaning(line) ==
    CASE line = LineA -> [Name |-> <<"a">>, Installer |-> <<"v">>, UID |-> 12]
      [] line = LineB -> [Name |-> <<"b">>, Installer |-> <<"w">>, UID |-> 0]
      [] line = LineC -> [Name |-> <<"c">>, Installer |-> <<"v">>, UID |-> 7]
      [] line = LineNoName -> [Name |-> <<>>, Installer |-> <<"v">>, UID |-> 5]
      [] line = LineSpaced -> [Name |-> <<"a">>, Installer |-> <<"w">>, UID |-> 3]

AnnotatedLines == {LineA, LineB, LineC, LineNoName, LineSpaced}

\* the package a listing line names, in either mode (<<>>: none)
ListName(line) ==
    CASE line \in {LineA, LineSpaced, LineRedA} -> <<"a">>
      [] line \in {LineB, LineRedB} -> <<"b">>
      [] line = LineC -> <<"c">>
      [] OTHER -> <<>>

\* the uid in the second field of a listing line (reduced mode)
SecondFieldUid(line) ==
    CASE line = LineRedA -> 4
      [] line = LineRedB -> 6
      [] OTHER -> 0

\* the path a `pm path` line gives (<<>>: none)
PathMeaning(line) ==
    CASE line = PathX -> <<"/", "x">>
      [] line = PathY -> <<"/", "y">>
      [] OTHER -> <<>>

\* the package a filtered listing line names (<<>>: none)
FilterName(line) ==
    CASE line = PkgPrefix \o <<"a">> -> <<"a">>
      [] line = PkgPrefix \o <<"b", "\r">> -> <<"b">>
      [] line = PkgPrefix \o <<"c">> -> <<"c">>
      [] line = <<" ">> \o PkgPrefix \o <<"d">> -> <<"d">>
      [] OTHER -> <<>>

Lines(text) == Split(text, NL[1])

\* [Name, Installer, UID] of a record
Ident(p) == [Name |-> p.Name, Installer |-> p.Installer, UID |-> p.UID]

Idents(pkgs) == [k \in 1..Len(pkgs) |-> Ident(pkgs[k])]

NoFlags(p) == ~p.Disabled /\ ~p.System /\ ~p.ThirdParty

\* the history
AnnotatedFailed == Len(shellLog) >= 1 /\ shellLog[1].cmd = CmdListAnnotated /\ shellLog[1].err
AnnotatedOk == Len(shellLog) >= 1 /\ shellLog[1].cmd = CmdListAnnotated /\ ~shellLog[1].err
ReducedFailed == AnnotatedFailed /\ Len(shellLog) >= 2 /\ shellLog[2].cmd = CmdListReduced /\ shellLog[2].err
ReducedOk == AnnotatedFailed /\ Len(shellLog) >= 2 /\ shellLog[2].cmd = CmdListReduced /\ ~shellLog[2].err

\* the listing text GetPackages parses
Listing == IF AnnotatedOk THEN shellLog[1].out ELSE shellLog[2].out

Returned == pc = "done"
Ended == pc \in {"done", "panic"}
InListingPass == pc \in {"parse", "path", "file"} \/ \E t \in 1..4 : pc = DigestCmds[t]

\* C1: when the annotated and the reduced listing query both fail, GetPackages
\* has returned an error with an empty record set and has issued no command
\* beyond those two.
C1_BothFailFatal ==
    ReducedFailed =>
        /\ Returned
        /\ retErr
        /\ retPackages = <<>>
        /\ Len(shellLog) = 2

C1_Witness == ReducedFailed /\ Returned /\ retErr

\* what the annotated listing text gives: its lines with a name, in order
SelectNamed(ms) == SelectSeq(ms, LAMBDA m : m.Name /= <<>>)

ExpectedAnnotated(lines) == SelectNamed([k \in 1..Len(lines) |-> ListMeaning(lines[k])])

ValidAnnotated == AnnotatedOk /\ \A k \in 1..Len(Lines(Listing)) : Lines(Listing)[k] \in AnnotatedLines

\* C3: for a valid annotated listing, the records are the lines with a
\* non-empty name, in the device's order and with repetitions kept, each with
\* its line's name, installer and uid (0 for a uid that is no integer); the
\* flags of every record are false until the filtered queries are merged; the
\* run does not panic and returns these records without error.
C3_AnnotatedRecords ==
    ValidAnnotated =>
        /\ pc /= "panic"
        /\ InListingPass =>
              /\ Idents(packages) = ExpectedAnnotated(SubSeq(Lines(Listing), 1, i - 1))
              /\ \A k \in 1..Len(packages) : NoFlags(packages[k])
        /\ Returned =>
              /\ ~retErr
              /\ Idents(retPackages) = ExpectedAnnotated(Lines(Listing))

C3_Witness ==
    /\ ValidAnnotated
    /\ Returned
    /\ Listing = Join(<<LineSpaced, LineB>>)
    /\ Idents(retPackages) =
          << [Name |-> <<"a">>, Installer |-> <<"w">>, UID |-> 3],
             [Name |-> <<"b">>, Installer |-> <<"w">>, UID |-> 0] >>

\* what the listing text gives in reduced mode
ExpectedReduced(lines) ==
    SelectNamed([k \in 1..Len(lines) |->
        [Name |-> ListName(lines[k]), Installer |-> <<>>, UID |-> SecondFieldUid(lines[k])]])

\* C2: when the annotated query fails and the reduced one succeeds, the run
\* ends by returning without error one record per line that names a package,
\* each with an empty installer and the uid of the line's second field.
C2_ReducedFallback ==
    (ReducedOk /\ Ended) =>
        /\ Returned
        /\ ~retErr
        /\ Idents(retPackages) = ExpectedReduced(Lines(Listing))

Names(pkgs) == [k \in 1..Len(pkgs) |-> pkgs[k].Name]

Distinct(ns) == \A k, m \in 1..Len(ns) : k /= m => ns[k] /= ns[m]

\* the names of the listing's lines that name a package, in order
ListedNames ==
    SelectSeq([k \in 1..Len(Lines(Listing)) |-> ListName(Lines(Listing)[k])],
              LAMBDA n : n /= <<>>)

\* C6 as claimed: no two returned records have the same name.
C6_NamesUnique == (Returned /\ ~retErr) => Distinct(Names(retPackages))

\* C6, amended: the returned records have pairwise different names whenever
\* the lines of the listing answer name pairwise different packages.
C6_NamesUniqueIfListedOnce ==
    (Returned /\ ~retErr /\ Distinct(ListedNames)) => Distinct(Names(retPackages))

C6_Witness ==
    /\ Returned
    /\ ~retErr
    /\ Distinct(ListedNames)
    /\ Len(retPackages) = 2
    /\ retPackages[1].Installer = retPackages[2].Installer

\* the history of getPackageFiles for the k-th record
PathEntries(k) == {e \in 1..Len(shellLog) : shellLog[e].cmd = CmdPath /\ shellLog[e].pkg = k}

DigestEntries(k, m, t) ==
    {e \in 1..Len(shellLog) :
        shellLog[e].cmd = DigestCmds[t] /\ shellLog[e].pkg = k /\ shellLog[e].file = m}

\* the paths a `pm path` text gives: its lines that hold a path, in order
ExpectedPaths(text) ==
    SelectSeq([k \in 1..Len(Lines(text)) |-> PathMeaning(Lines(text)[k])],
              LAMBDA q : q /= <<>>)

Paths(files) == [m \in 1..Len(files) |-> files[m].Path]

\* the k-th record's files are those of its path answer, none after a failure
FilesAsListed(k, files) ==
    \E e \in PathEntries(k) :
        /\ PathEntries(k) = {e}
        /\ Paths(files) = IF shellLog[e].err THEN <<>> ELSE ExpectedPaths(shellLog[e].out)

\* the filtered queries
FilterEntries(f) == {e \in 1..Len(shellLog) : shellLog[e].cmd = CmdFilter(f)}

FlagOf(p, f) == p[cmds[f].field]

\* the f-th filtered query was not skipped and a line of its answer names name
NamedBy(f, name) ==
    \E e \in FilterEntries(f) :
        /\ ~(shellLog[e].err /\ shellLog[e].out = <<>>)
        /\ \E k \in 1..Len(Lines(shellLog[e].out)) :
              FilterName(Lines(shellLog[e].out)[k]) = name

FlagsAsNamed(pkgs) ==
    \A k \in 1..Len(pkgs) : \A f \in 1..3 : FlagOf(pkgs[k], f) = NamedBy(f, pkgs[k].Name)

BlankLines == {LineBlank, LineWhite}

\* C7: a blank line is dropped wherever an answer is parsed.  A listing of
\* well-formed and blank lines gives the records of its well-formed lines and
\* the run does not abort; a path answer gives the files of its non-blank
\* lines; a blank line of a filtered answer changes no flag.
C7_BlankLinesDropped ==
    /\ (AnnotatedOk /\ \A k \in 1..Len(Lines(Listing)) :
                            Lines(Listing)[k] \in AnnotatedLines \cup BlankLines)
          => /\ pc /= "panic"
             /\ Returned =>
                   Idents(retPackages) =
                       ExpectedAnnotated(SelectSeq(Lines(Listing), LAMBDA l : l \in AnnotatedLines))
    /\ \A k \in 1..Len(packages) : FilesAsListed(k, packages[k].Files)
    /\ (Returned /\ ~retErr) => FlagsAsNamed(retPackages)

\* C9: when the path query of a record fails, the run ends by returning
\* without error; that record is returned with no files and no digest command
\* was issued for it; every line of the listing that names a package has its
\* record returned, the later ones with their own path query.
C9_PathFailureIsolated ==
    \A e \in 1..Len(shellLog) :
        (shellLog[e].cmd = CmdPath /\ shellLog[e].err /\ Ended) =>
            /\ Returned
            /\ ~retErr
            /\ Len(retPackages) >= shellLog[e].pkg
            /\ retPackages[shellLog[e].pkg].Files = <<>>
            /\ \A m \in 1..(MaxPathLines + 1) : \A t \in 1..4 :
                  DigestEntries(shellLog[e].pkg, m, t) = {}
            /\ Names(retPackages) = ListedNames
            /\ \A k \in 1..Len(retPackages) : FilesAsListed(k, retPackages[k].Files)

\* C4: after GetPackages has returned, each of the three flags of a record is
\* true exactly when the corresponding filtered query was not skipped and a
\* line of its answer names the record's package.
C4_FlagsAsReported == (Returned /\ ~retErr) => FlagsAsNamed(retPackages)

C4_Witness ==
    /\ Returned
    /\ Names(retPackages) = << <<"a">>, <<"b">>, <<"c">>, <<"b">> >>
    /\ \E e \in FilterEntries(2) : shellLog[e].out = PkgPrefix \o <<"b", "\r">>
    /\ [k \in 1..4 |-> retPackages[k].System] = <<FALSE, TRUE, FALSE, TRUE>>

\* the file records of the k-th record: those of packages, and those
\* getPackageFiles has built so far for the record after them
FilesOf(k) ==
    IF k <= Len(packages) THEN packages[k].Files
    ELSE IF k = Len(packages) + 1 /\ InListingPass /\ pc \notin {"parse", "path"}
    THEN packageFiles
    ELSE <<>>

\* the t-th digest field of the m-th file of the k-th record is as its command
\* answered
DigestAsAnswered(k, m, t) ==
    LET f == FilesOf(k)[m]
    IN IF fast
       THEN DigestEntries(k, m, t) = {} /\ f[DigestFields[t]] = <<>>
       ELSE \E e \in DigestEntries(k, m, t) :
               /\ DigestEntries(k, m, t) = {e}
               /\ shellLog[e].arg = f.Path
               /\ f[DigestFields[t]] =
                     IF shellLog[e].err THEN <<>> ELSE DigestHex(t, f.Path)

\* C5: every file record has, for each of the four digest types, an empty
\* field and no digest command in fast mode, and otherwise one digest command
\* whose failure leaves the field empty and whose success leaves the digest it
\* printed, whatever the other three commands did; and every path of the path
\* answer has its file record.
C5_DigestsPerField ==
    /\ \A k \in 1..(Len(packages) + 1) : \A m \in 1..Len(FilesOf(k)) : \A t \in 1..4 :
          DigestAsAnswered(k, m, t)
    /\ fast => \A e \in 1..Len(shellLog) : \A t \in 1..4 : shellLog[e].cmd /= DigestCmds[t]
    /\ \A k \in 1..Len(packages) : FilesAsListed(k, packages[k].Files)

C5_Witness ==
    /\ ~fast
    /\ Returned
    /\ Len(retPackages) = 1
    /\ Len(retPackages[1].Files) = 2
    /\ retPackages[1].Files[2] =
          [Path |-> <<"/", "y">>, MD5 |-> <<"m", "y">>, SHA1 |-> <<>>,
           SHA256 |-> <<"t", "y">>, SHA512 |-> <<"u", "y">>]
    /\ \E e \in DigestEntries(1, 2, 2) : shellLog[e].err

SkippedFlag(f) == \E e \in FilterEntries(f) : shellLog[e].err /\ shellLog[e].out = <<>>

\* the commands of the last n calls
LastCmds(n) == [k \in 1..n |-> shellLog[Len(shellLog) - n + k].cmd]

\* C8: when a filtered query fails with no output, its flag is false for every
\* record, the run goes on with the remaining filtered queries, and it returns
\* the records without error after all three queries were issued in order,
\* the answers of the others merged.
C8_FilterFailureSkipped ==
    \A f \in 1..3 : SkippedFlag(f) =>
        /\ pc \in {"filter", "done"}
        /\ \A k \in 1..Len(packages) : ~FlagOf(packages[k], f)
        /\ Returned =>
              /\ ~retErr
              /\ retPackages = packages
              /\ LastCmds(3) = <<CmdFilter(1), CmdFilter(2), CmdFilter(3)>>
              /\ \A k \in 1..Len(retPackages) : \A g \in 1..3 :
                    NamedBy(g, retPackages[k].Name) => FlagOf(retPackages[k], g)

C8_Witness ==
    /\ Returned
    /\ SkippedFlag(1)
    /\ ~SkippedFlag(2)
    /\ \E k \in 1..Len(retPackages) : retPackages[k].System /\ ~retPackages[k].Disabled

\* C10: a step of the merge pass keeps the records, their order and their
\* name, installer, uid and files, keeps every flag that is true, and neither
\* aborts nor returns an error.
C10_MergeOnlySetsFlags ==
    [][pc = "filter" =>
         /\ Len(packages') = Len(packages)
         /\ \A k \in 1..Len(packages) :
               /\ Ident(packages'[k]) = Ident(packages[k])
               /\ packages'[k].Files = packages[k].Files
               /\ \A f \in 1..3 : FlagOf(packages[k], f) => FlagOf(packages'[k], f)
         /\ pc' \in {"filter", "done"}
         /\ ~retErr'
         /\ pc' = "done" => retPackages' = packages']_vars

C10_Witness ==
    /\ Returned
    /\ Len(retPackages) = 4
    /\ \A k \in 1..4 : retPackages[k].Name /= <<"d">>
    /\ NamedBy(2, <<"d">>)
    /\ \E k \in 1..4 : retPackages[k].Disabled /\ retPackages[k].ThirdParty

====
